---- MODULE Spec2Model ----
(***************************************************************************)
(* Model of uploadAndPublish.py: the deployment run of deploy_packages     *)
(* (plan building, login, sequential upload, publish-begin, status         *)
(* polling with log de-duplication, logout in the finally block) and the   *)
(* exit-status mapping of main.                                            *)
(*                                                                         *)
(* Every remote call's response is an input of the step that issues the    *)
(* call.  Strings whose content matters (log types, messages, log          *)
(* identifiers) are sequences of one-character strings.                    *)
(***************************************************************************)
EXTENDS Integers, Sequences, FiniteSets, TLC

VARIABLES
    config_file,     \* --config-file: [exists, content]
    dir_exists,      \* base_directory.exists()
    directory,       \* the files of base_directory
    pc,              \* position of the run
    files_config,    \* deploy_packages: files_config
    project_names,   \* deploy_packages: project_names
    calls,           \* the client calls issued so far, in order, with their outcome
    cookies,         \* bool(client.session.cookies)
    session_closed,  \* client.session.close() has run
    seen_logs,       \* deploy_packages: seen_logs
    response,        \* check_publish_status: the last publishEnd response, [outcome, body]
    status,          \* deploy_packages: status, the last poll's record
    displayed,       \* the "[TYPE] message" lines logged so far, as pairs
    returned_logs,   \* the (TYPE, message) pairs the server returned in the polls before the last one
    result,          \* the value deploy_packages returns: "none" until decided
    raised,          \* the exception leaving deploy_packages, "none" if none
    exit_code        \* the process's exit status, -1 while running

vars == <<config_file, dir_exists, directory, pc, files_config, project_names,
          calls, cookies, session_closed, seen_logs, response, status, displayed,
          returned_logs, result, raised, exit_code>>

----------------------------------------------------------------------------
(* Bounds *)

MaxConfigLen == 2
MaxPolls == 2
MaxLogs == 1

----------------------------------------------------------------------------
(* Inputs *)

FileUniverse ==
    { [prefix |-> "RW.Base", version |-> 1],
      [prefix |-> "RW.SiteMap", version |-> 1] }

\* the entries a configuration file is made of
ConfigEntries ==
    { [file_pattern |-> "RW.Base.*.zip", project_level |-> 1],
      [file_pattern |-> "RW.Base.*.zip", project_level |-> 2],
      [file_pattern |-> "RW.SiteMap.*.zip", project_level |-> 1] }

SeqsUpTo(S, n) == UNION { [1..k -> S] : k \in 0..n }

ConfigFiles ==
    { [exists |-> FALSE, content |-> <<>>] } \cup
    { [exists |-> TRUE, content |-> c] : c \in SeqsUpTo(ConfigEntries, MaxConfigLen) }

LogEntries ==
    { [logType |-> <<"a">>, message |-> <<"x">>],
      [logType |-> <<"A">>, message |-> <<":", "x">>],
      [logType |-> <<"A", ":">>, message |-> <<"x">>] }

HttpOutcomes == { "ok", "http_error", "fault" }

\* the outcomes of a publishEnd request: those of any request, and a 2xx
\* response whose body response.json() cannot parse into an object
PollOutcomes == HttpOutcomes \cup { "bad_json" }

----------------------------------------------------------------------------
(* load_package_config *)

DefaultConfig ==
    << [file_pattern |-> "RW.Base.*.zip", project_level |-> 1],
       [file_pattern |-> "RW.Screens.Extension.Files.*.zip", project_level |-> 2],
       [file_pattern |-> "RW.SiteMap.*.zip", project_level |-> 3],
       [file_pattern |-> "RW.Branding.*.zip", project_level |-> 4],
       [file_pattern |-> "RW.Endpoints.*.zip", project_level |-> 5],
       [file_pattern |-> "RW.Security.*.zip", project_level |-> 6],
       [file_pattern |-> "RW.BusinessEvents.*.zip", project_level |-> 7],
       [file_pattern |-> "RW.FinancialReports.*.zip", project_level |-> 8] >>

load_package_config(cf) == IF cf.exists THEN cf.content ELSE DefaultConfig

----------------------------------------------------------------------------
(* find_package_files *)

\* base_directory.glob(file_pattern), as the set of matching files
Glob(dir, file_pattern) == { f \in dir : file_pattern = f.prefix \o ".*.zip" }

\* file_path.stem: the file name without ".zip"
Stem(f) == <<f.prefix, f.version>>

\* the orders in which the directory can list its files
Listings(dir) ==
    { l \in [1..Cardinality(dir) -> dir] : \A i, j \in DOMAIN l : l[i] = l[j] => i = j }

\* matching_files[0]: the first file of the listing that matches the pattern
FirstMatch(listing, file_pattern) ==
    LET m == { i \in DOMAIN listing : listing[i] \in Glob({listing[i]}, file_pattern) }
    IN  listing[CHOOSE i \in m : \A j \in m : i <= j]

\* a mutant of NoValidFiles: the empty plan is let through
NoValidFilesUnchecked(plan) == FALSE

\* line 322: "if not result"
NoValidFiles(plan) == plan = <<>>

\* a mutant of find_package_files: the loop stops at the first pattern
\* without a file ("break" for "continue")
RECURSIVE FindUntilMissing(_, _)
FindUntilMissing(listing, config) ==
    IF config = <<>> THEN <<>>
    ELSE LET package_config == Head(config)
             dir == { listing[i] : i \in DOMAIN listing }
         IN  IF Glob(dir, package_config.file_pattern) = {} THEN <<>>
             ELSE LET file_path == FirstMatch(listing, package_config.file_pattern)
                  IN  << [file_path |-> file_path,
                          project_data |->
                              [projectLevel |-> package_config.project_level,
                               projectName |-> Stem(file_path)]] >>
                      \o FindUntilMissing(listing, Tail(config))

RECURSIVE find_package_files(_, _)
find_package_files(listing, config) ==
    IF config = <<>> THEN <<>>
    ELSE LET package_config == Head(config)
             rest == find_package_files(listing, Tail(config))
             dir == { listing[i] : i \in DOMAIN listing }
         IN  IF Glob(dir, package_config.file_pattern) = {} THEN rest
             ELSE LET file_path == FirstMatch(listing, package_config.file_pattern)
                  IN  << [file_path |-> file_path,
                          project_data |->
                              [projectLevel |-> package_config.project_level,
                               projectName |-> Stem(file_path)]] >> \o rest

----------------------------------------------------------------------------
(* Log de-duplication, deploy_packages lines 400-407 *)

UpperChar(c) == IF c = "a" THEN "A" ELSE IF c = "x" THEN "X" ELSE c

Upper(s) == [i \in DOMAIN s |-> UpperChar(s[i])]

\* f"{log_type}:{message}"
LogIdentifier(log_type, message) == log_type \o <<":">> \o message

\* the pair a log entry stands for: (uppercased logType, message)
LogPair(log_entry) == <<Upper(log_entry.logType), log_entry.message>>

\* a mutant of Remember: the identifier is never added to the set
RememberNothing(seen, log_identifier) == seen

\* seen_logs.add(log_identifier)
Remember(seen, log_identifier) == seen \cup {log_identifier}

RECURSIVE ProcessLogs(_, _, _)
ProcessLogs(logs, seen, shown) ==
    IF logs = <<>> THEN [seen |-> seen, shown |-> shown]
    ELSE LET log_type == Upper(Head(logs).logType)
             message == Head(logs).message
             log_identifier == LogIdentifier(log_type, message)
         IN  IF log_identifier \notin seen
             THEN ProcessLogs(Tail(logs), Remember(seen, log_identifier),
                              Append(shown, <<log_type, message>>))
             ELSE ProcessLogs(Tail(logs), seen, shown)

----------------------------------------------------------------------------
(* The client's calls *)

Call(op, ok, arg) == [op |-> op, ok |-> ok, arg |-> arg]

CallsOf(op) == { i \in DOMAIN calls : calls[i].op = op }

\* What bool(session.cookies) can be after a request: a response may carry
\* Set-Cookie headers, which the session stores; a transport fault brings no
\* response.
JarsAfter(outcome) == IF outcome = "fault" THEN {cookies} ELSE {cookies, TRUE}

NoResponse == [outcome |-> "none", body |-> <<>>]

NoStatus == [success |-> FALSE, is_complete |-> FALSE, is_failed |-> FALSE, logs |-> <<>>]

Init ==
    /\ config_file \in ConfigFiles
    /\ dir_exists \in BOOLEAN
    /\ directory \in SUBSET FileUniverse
    /\ (~dir_exists => directory = {})
    /\ pc = "main"
    /\ files_config = <<>>
    /\ project_names = <<>>
    /\ calls = <<>>
    /\ cookies = FALSE
    /\ session_closed = FALSE
    /\ seen_logs = {}
    /\ response = NoResponse
    /\ status = NoStatus
    /\ displayed = <<>>
    /\ returned_logs = {}
    /\ result = "none"
    /\ raised = "none"
    /\ exit_code = -1

\* parse_arguments fails: argparse exits the process with status 2.
ParseError ==
    /\ pc = "main"
    /\ pc' = "exited"
    /\ exit_code' = 2
    /\ UNCHANGED <<config_file, dir_exists, directory, response,
                   files_config, project_names,
                   calls, cookies, session_closed, seen_logs, status, displayed,
                   returned_logs, result, raised>>

\* main calls deploy_packages: lines 346-352, before the try block.
DeployStart(listing) ==
    /\ pc = "main"
    /\ LET plan == find_package_files(listing, load_package_config(config_file))
       IN  IF ~dir_exists \/ NoValidFiles(plan)
           THEN /\ raised' = "FileNotFoundError"
                /\ pc' = "raised"
                /\ UNCHANGED <<files_config, project_names>>
           ELSE /\ files_config' = plan
                /\ project_names' = [i \in DOMAIN plan |-> plan[i].project_data.projectName]
                /\ pc' = "login"
                /\ UNCHANGED raised
    /\ UNCHANGED <<config_file, dir_exists, directory, response,
                   calls, cookies, session_closed,
                   seen_logs, status, displayed, returned_logs, result, exit_code>>

\* a mutant of LoginNext: a failed login does not stop the run
LoginNextProceeds(outcome) ==
    [pc |-> IF files_config = <<>> THEN "publish" ELSE "upload", result |-> "none"]

\* Where the run goes after client.login(): login raises DeploymentError on
\* any failure, which the except clause turns into "return False".
LoginNext(outcome) ==
    IF outcome = "ok"
    THEN [pc |-> IF files_config = <<>> THEN "publish" ELSE "upload", result |-> "none"]
    ELSE [pc |-> "finally", result |-> "false"]

\* client.login() and the wait before upload.
Login(outcome, jar) ==
    /\ pc = "login"
    /\ calls' = Append(calls, Call("login", outcome = "ok", <<>>))
    /\ cookies' = jar
    /\ pc' = LoginNext(outcome).pc
    /\ result' = LoginNext(outcome).result
    /\ UNCHANGED <<config_file, dir_exists, directory, response,
                   files_config, project_names,
                   session_closed, seen_logs, status, displayed, returned_logs,
                   raised, exit_code>>

\* a mutant of UploadNext: the loop goes on after a failed upload
UploadNextContinues(outcome, n) ==
    [pc |-> IF n = Len(files_config) THEN "publish" ELSE "upload", result |-> "none"]

\* Where the run goes after the n-th upload_file: a failure result raises
\* DeploymentError (lines 370-371), success goes on with the loop.
UploadNext(outcome, n) ==
    IF outcome # "ok" THEN [pc |-> "finally", result |-> "false"]
    ELSE [pc |-> IF n = Len(files_config) THEN "publish" ELSE "upload", result |-> "none"]

\* One iteration of the upload loop: client.upload_file and the check of its result.
Upload(outcome, jar) ==
    /\ pc = "upload"
    /\ LET n == Cardinality(CallsOf("upload")) + 1
           config == files_config[n]
       IN  /\ calls' = Append(calls, Call("upload", outcome = "ok",
                                          <<config.project_data.projectLevel,
                                            config.project_data.projectName>>))
           /\ pc' = UploadNext(outcome, n).pc
           /\ result' = UploadNext(outcome, n).result
    /\ cookies' = jar
    /\ UNCHANGED <<config_file, dir_exists, directory, response,
                   files_config, project_names,
                   session_closed, seen_logs, status, displayed, returned_logs,
                   raised, exit_code>>

\* a mutant of PublishNext: the result of publish_customizations is not looked at
PublishNextProceeds(outcome) == [pc |-> "poll", result |-> "none"]

\* Where the run goes after publish_customizations: a failure result raises
\* DeploymentError (lines 383-384), success enters the monitoring loop.
PublishNext(outcome) ==
    IF outcome = "ok" THEN [pc |-> "poll", result |-> "none"]
    ELSE [pc |-> "finally", result |-> "false"]

\* The wait before publishing, client.publish_customizations(project_names)
\* and, on success, the creation of seen_logs.
Publish(outcome, jar) ==
    /\ pc = "publish"
    /\ calls' = Append(calls, Call("publish", outcome = "ok", project_names))
    /\ cookies' = jar
    /\ pc' = PublishNext(outcome).pc
    /\ result' = PublishNext(outcome).result
    /\ seen_logs' = {}
    /\ UNCHANGED <<config_file, dir_exists, directory, response,
                   files_config, project_names,
                   session_closed, status, displayed, returned_logs, raised, exit_code>>

\* the bodies of the publishEnd responses
PollBodies ==
    [isCompleted : BOOLEAN, isFailed : BOOLEAN, log : SeqsUpTo(LogEntries, MaxLogs)]

NoBody == [isCompleted |-> FALSE, isFailed |-> FALSE, log |-> <<>>]

\* the keys check_publish_status reads in the response's JSON object
StatusKeys == { "isCompleted", "isFailed", "log" }

\* the bodies of the publishEnd responses, any of the keys missing
StatusBodies ==
    { [k \in K |-> b[k]] : b \in PollBodies, K \in SUBSET StatusKeys }

\* a mutant of Get: a missing flag reads as true
GetTruthy(d, key, default) ==
    IF key \in DOMAIN d THEN d[key] ELSE IF key = "log" THEN default ELSE TRUE

\* dict.get(key, default)
Get(d, key, default) == IF key \in DOMAIN d THEN d[key] ELSE default

\* check_publish_status: the status record of a response.  The record of
\* the except clause has no "logs" key; the loop reads it with
\* status.get("logs", []), so it is the empty list here.
check_publish_status(outcome, body) ==
    IF outcome = "ok"
    THEN [success |-> TRUE, is_complete |-> Get(body, "isCompleted", FALSE),
          is_failed |-> Get(body, "isFailed", FALSE), logs |-> Get(body, "log", <<>>)]
    ELSE [success |-> FALSE, is_complete |-> FALSE, is_failed |-> TRUE, logs |-> <<>>]

\* a mutant of PollNext: a completed publish counts as a success whatever
\* its failure flag
PollNextIgnoresFailed(st) ==
    IF ~st.success THEN [pc |-> "finally", result |-> "false"]
    ELSE IF st.is_complete THEN [pc |-> "finally", result |-> "true"]
         ELSE [pc |-> "poll", result |-> "none"]

\* a mutant of PollNext: a poll that reports failure is taken as "not yet
\* complete"
PollNextIgnoresFault(st) ==
    IF st.success /\ st.is_complete
    THEN IF st.is_failed THEN [pc |-> "finally", result |-> "false"]
         ELSE [pc |-> "finally", result |-> "true"]
    ELSE [pc |-> "poll", result |-> "none"]

\* a mutant of PollNext: the loop gives up at the second poll that is not
\* complete
PollNextGivesUp(st) ==
    IF ~st.success THEN [pc |-> "finally", result |-> "false"]
    ELSE IF st.is_complete
         THEN IF st.is_failed THEN [pc |-> "finally", result |-> "false"]
              ELSE [pc |-> "finally", result |-> "true"]
         ELSE IF CallsOf("poll") # {} THEN [pc |-> "finally", result |-> "false"]
              ELSE [pc |-> "poll", result |-> "none"]

\* a mutant of PollNext: the fault of a failed poll is not turned into a
\* return value before the finally block runs
PollNextUncaught(st) ==
    IF ~st.success THEN [pc |-> "finally", result |-> "none"]
    ELSE IF st.is_complete
         THEN IF st.is_failed THEN [pc |-> "finally", result |-> "false"]
              ELSE [pc |-> "finally", result |-> "true"]
         ELSE [pc |-> "poll", result |-> "none"]

\* a mutant of PollNext: the failure flag ends the run before completion
PollNextFailsEarly(st) ==
    IF ~st.success \/ st.is_failed THEN [pc |-> "finally", result |-> "false"]
    ELSE IF st.is_complete THEN [pc |-> "finally", result |-> "true"]
         ELSE [pc |-> "poll", result |-> "none"]

\* What the loop body does with a status record: where the run goes next
\* and what it returns (lines 394-397 and 410-422).
PollNext(st) ==
    IF ~st.success THEN [pc |-> "finally", result |-> "false"]
    ELSE IF st.is_complete
         THEN IF st.is_failed THEN [pc |-> "finally", result |-> "false"]
              ELSE [pc |-> "finally", result |-> "true"]
         ELSE [pc |-> "poll", result |-> "none"]

\* One iteration of the monitoring loop, lines 391-417.
Poll(outcome, jar, body) ==
    /\ pc = "poll"
    /\ Cardinality(CallsOf("poll")) < MaxPolls
    /\ LET st == check_publish_status(outcome, body)
           logged == IF st.success THEN ProcessLogs(st.logs, seen_logs, displayed)
                     ELSE [seen |-> seen_logs, shown |-> displayed]
           next == PollNext(st)
       IN  /\ status' = st
           /\ calls' = Append(calls, Call("poll", st.success, <<>>))
           /\ seen_logs' = logged.seen
           /\ displayed' = logged.shown
           /\ pc' = next.pc
           /\ result' = next.result
    /\ returned_logs' = returned_logs \cup { LogPair(status.logs[i]) : i \in DOMAIN status.logs }
    /\ response' = [outcome |-> outcome, body |-> body]
    /\ cookies' = jar
    /\ UNCHANGED <<config_file, dir_exists, directory, files_config, project_names,
                   session_closed, raised, exit_code>>

\* a mutant of LogoutCatches: only HTTP error responses are caught
LogoutCatchesHttpErrorOnly(outcome) == outcome = "http_error"

\* logout's "except requests.exceptions.RequestException": a non-2xx
\* response (HTTPError) and a transport fault are both RequestExceptions.
LogoutCatches(outcome) == outcome \in {"http_error", "fault"}

\* a mutant of ClosedAfterLogout: the session is closed in the try block,
\* after a successful request only
ClosedAfterLogoutOk(outcome) == outcome = "ok"

\* logout's "finally: self.session.close()": whether the session is closed
\* when logout is left, for each outcome of the logout request
ClosedAfterLogout(outcome) == TRUE

\* The finally block when the cookie jar is not empty: client.logout(),
\* which closes the session whatever the request did, then the return of
\* the value decided in the try block.  An exception leaving logout would
\* replace that return.
FinallyLogout(outcome) ==
    /\ pc = "finally"
    /\ cookies
    /\ calls' = Append(calls, Call("logout", outcome = "ok", <<>>))
    /\ session_closed' = ClosedAfterLogout(outcome)
    /\ IF outcome = "ok" \/ LogoutCatches(outcome)
       THEN pc' = "returned" /\ UNCHANGED <<result, raised>>
       ELSE pc' = "raised" /\ raised' = "RequestException" /\ result' = "none"
    /\ UNCHANGED <<config_file, dir_exists, directory, response,
                   files_config, project_names,
                   cookies, seen_logs, status, displayed, returned_logs, exit_code>>

\* The finally block when the cookie jar is empty: no logout.
FinallySkip ==
    /\ pc = "finally"
    /\ ~cookies
    /\ pc' = "returned"
    /\ UNCHANGED <<config_file, dir_exists, directory, response,
                   files_config, project_names,
                   calls, cookies, session_closed, seen_logs, status, displayed,
                   returned_logs, result, raised, exit_code>>

\* the exceptions main's "except Exception" clause catches
IsException(e) == e \in {"FileNotFoundError", "DeploymentError", "RequestException"}

\* a mutant of ExitStatus: the result is not looked at
ExitStatusAlwaysZero(success) == 0

\* lines 447-448: "if not success: sys.exit(1)", else main returns (status 0)
ExitStatus(success) == IF success # "true" THEN 1 ELSE 0

\* main after deploy_packages, lines 447-451.  An exception the except
\* clause does not catch leaves main ("crashed").
MainExit ==
    /\ pc \in {"returned", "raised"}
    /\ IF pc = "raised"
       THEN IF IsException(raised)
            THEN pc' = "exited" /\ exit_code' = 1
            ELSE pc' = "crashed" /\ exit_code' = 1
       ELSE /\ pc' = "exited"
            /\ exit_code' = ExitStatus(result)
    /\ UNCHANGED <<config_file, dir_exists, directory, response,
                   files_config, project_names,
                   calls, cookies, session_closed, seen_logs, status, displayed,
                   returned_logs, result, raised>>

Next ==
    \/ ParseError
    \/ \E listing \in Listings(directory) : DeployStart(listing)
    \/ \E outcome \in HttpOutcomes : \E jar \in JarsAfter(outcome) : Login(outcome, jar)
    \/ \E outcome \in HttpOutcomes : \E jar \in JarsAfter(outcome) : Upload(outcome, jar)
    \/ \E outcome \in HttpOutcomes : \E jar \in JarsAfter(outcome) : Publish(outcome, jar)
    \/ \E outcome \in PollOutcomes : \E jar \in JarsAfter(outcome) :
           \E body \in (IF outcome = "ok" THEN PollBodies ELSE {NoBody}) :
               Poll(outcome, jar, body)
    \/ \E outcome \in HttpOutcomes : FinallyLogout(outcome)
    \/ FinallySkip
    \/ MainExit

Spec == Init /\ [][Next]_vars

\* The runs without a configuration file: the default configuration.
InitDefault == Init /\ ~config_file.exists

\* The program runs on: a step that can be taken is taken.  The finally
\* block follows the try block and main's exit follows the return (each
\* request of the run is taken to return).  The runs are those of the
\* default configuration.
SpecFair ==
    /\ InitDefault /\ [][Next]_vars
    /\ WF_vars(\E outcome \in HttpOutcomes : FinallyLogout(outcome))
    /\ WF_vars(FinallySkip)
    /\ WF_vars(MainExit)

\* The plan builder alone: load_package_config and find_package_files on
\* any configuration and any directory of PlanFiles.
PlanFiles ==
    { [prefix |-> "RW.Base", version |-> 1],
      [prefix |-> "RW.Base", version |-> 2],
      [prefix |-> "RW.SiteMap", version |-> 1],
      [prefix |-> "RW.Endpoints", version |-> 1] }

InitPlan ==
    /\ config_file \in ConfigFiles
    /\ dir_exists \in BOOLEAN
    /\ directory \in SUBSET PlanFiles
    /\ (~dir_exists => directory = {})
    /\ pc = "main"
    /\ files_config = <<>>
    /\ project_names = <<>>
    /\ calls = <<>>
    /\ cookies = FALSE
    /\ session_closed = FALSE
    /\ seen_logs = {}
    /\ response = NoResponse
    /\ status = NoStatus
    /\ displayed = <<>>
    /\ returned_logs = {}
    /\ result = "none"
    /\ raised = "none"
    /\ exit_code = -1

NextPlan == \E listing \in Listings(directory) : DeployStart(listing)

SpecPlan == InitPlan /\ [][NextPlan]_vars

\* The runs with the default configuration, against a server whose
\* publishEnd responses may lack any of the keys.
NextStatus ==
    \/ ParseError
    \/ \E listing \in Listings(directory) : DeployStart(listing)
    \/ \E outcome \in HttpOutcomes : \E jar \in JarsAfter(outcome) : Login(outcome, jar)
    \/ \E outcome \in HttpOutcomes : \E jar \in JarsAfter(outcome) : Upload(outcome, jar)
    \/ \E outcome \in HttpOutcomes : \E jar \in JarsAfter(outcome) : Publish(outcome, jar)
    \/ \E outcome \in PollOutcomes : \E jar \in JarsAfter(outcome) :
           \E body \in (IF outcome = "ok" THEN StatusBodies ELSE {NoBody}) :
               Poll(outcome, jar, body)
    \/ \E outcome \in HttpOutcomes : FinallyLogout(outcome)
    \/ FinallySkip
    \/ MainExit

SpecStatus == InitDefault /\ [][NextStatus]_vars

----------------------------------------------------------------------------
(* Vocabulary of the properties *)

LoginSucceeded == \E i \in CallsOf("login") : calls[i].ok

LoginFailed == \E i \in CallsOf("login") : ~calls[i].ok

\* deploy_packages has returned a value
Returned == pc = "returned" \/ (pc = "exited" /\ result # "none")

\* the calls of the deployment proper: everything but login and logout
StageCalls == CallsOf("upload") \cup CallsOf("publish") \cup CallsOf("poll")

\* the i-th call is an upload that returned a failure result
UploadFailedAt(i) == i \in CallsOf("upload") /\ ~calls[i].ok

\* no configured pattern has a file in the package directory
NoUnits ==
    LET config == load_package_config(config_file)
    IN  ~dir_exists \/ \A i \in DOMAIN config : Glob(directory, config[i].file_pattern) = {}

\* the conditions under which the run is a success
AllStagesSucceeded ==
    /\ LoginSucceeded
    /\ Cardinality(CallsOf("upload")) = Len(files_config)
    /\ \A i \in CallsOf("upload") : calls[i].ok
    /\ \E i \in CallsOf("publish") : calls[i].ok
    /\ status.success /\ status.is_complete /\ ~status.is_failed

\* the step is a poll
PollStep == Len(calls') = Len(calls) + 1 /\ calls'[Len(calls')].op = "poll"

\* the step is the logout of the finally block, and the logout request fails
FailedLogoutStep ==
    /\ pc = "finally"
    /\ Len(calls') = Len(calls) + 1
    /\ calls'[Len(calls')].op = "logout"
    /\ ~calls'[Len(calls')].ok

----------------------------------------------------------------------------
(* The properties *)

\* C1: in every run in which login succeeded, logout has been invoked
\* exactly once when deploy_packages returns.
C1_LogoutOnceAfterLogin ==
    (Returned /\ LoginSucceeded) => Cardinality(CallsOf("logout")) = 1

\* C2: when login fails, logout has still been attempted when
\* deploy_packages returns.
C2_LogoutAfterFailedLogin ==
    (Returned /\ LoginFailed) => CallsOf("logout") # {}

\* C3: when login fails, no upload, publish-begin or poll call is ever
\* issued in the run, and the run's result is false.
C3_FailedLoginStopsRun ==
    LoginFailed => /\ StageCalls = {}
                   /\ result = "false"
                   /\ pc \in {"finally", "returned", "exited"}

C3_Witness == pc = "exited" /\ LoginFailed /\ exit_code = 1

\* C4: once an upload has returned a failure result, no later unit is
\* uploaded, no publish-begin and no poll call is made, and the result is
\* false.
C4_FailedUploadStopsRun ==
    \A i \in DOMAIN calls :
        UploadFailedAt(i) => /\ \A j \in StageCalls : j <= i
                             /\ result = "false"
                             /\ pc \in {"finally", "returned", "exited"}

C4_Witness ==
    /\ pc = "exited"
    /\ Len(files_config) = 2
    /\ UploadFailedAt(2)
    /\ Cardinality(CallsOf("upload")) = 1

\* C5: the upload calls of a run have strictly ascending projectLevel
\* values, whatever the configuration list.
C5_UploadsAscending ==
    \A i, j \in CallsOf("upload") : i < j => calls[i].arg[1] < calls[j].arg[1]

\* C6: no (uppercased logType, message) pair is displayed twice, and a
\* poll whose response holds only entries that an earlier poll returned
\* displays nothing.
C6_NoRedisplay ==
    /\ [](\A i, j \in DOMAIN displayed : displayed[i] = displayed[j] => i = j)
    /\ [][(/\ PollStep
           /\ status'.success
           /\ \A i \in DOMAIN status'.logs : LogPair(status'.logs[i]) \in returned_logs')
          => displayed' = displayed]_vars

C6_Witness ==
    /\ Cardinality(CallsOf("poll")) = 2
    /\ status.success
    /\ status.logs # <<>>
    /\ \A i \in DOMAIN status.logs : LogPair(status.logs[i]) \in returned_logs
    /\ Len(displayed) = 1

\* C7: a run whose plan has no unit, or whose package directory does not
\* exist, ends with the configuration error FileNotFoundError before any
\* call of the client is issued.
C7_NoUnitsNoCalls ==
    NoUnits => /\ calls = <<>>
               /\ result = "none"
               /\ pc \in {"main", "raised", "exited"}
               /\ pc = "raised" => raised = "FileNotFoundError"
               /\ pc = "exited" => (exit_code = 2 \/ raised = "FileNotFoundError")

C7_Witness ==
    /\ pc = "exited"
    /\ raised = "FileNotFoundError"
    /\ dir_exists
    /\ directory # {}
    /\ config_file.exists /\ config_file.content # <<>>

\* C8: the result is true only if login, every upload and publish-begin
\* succeeded and the last poll returned success, complete and not failed;
\* every other run that returns returns false.
C8_TrueOnlyFromSucceeded ==
    /\ result = "true" => AllStagesSucceeded
    /\ Returned => result \in {"true", "false"}
    /\ (Returned /\ AllStagesSucceeded) => result = "true"

C8_Witness == pc = "returned" /\ result = "true" /\ Len(files_config) = 2

\* C9: a process that ends after a failed run, a configuration error
\* included, ends with a non-zero exit status; exit status 0 is the status
\* of a run whose result is true alone; no exception leaves main.
C9_ExitStatus ==
    /\ pc # "crashed"
    /\ pc = "exited" => /\ exit_code \in {0, 1, 2}
                        /\ exit_code = 0 <=> result = "true"
                        /\ raised # "none" => exit_code = 1

C9_Witness ==
    /\ pc = "exited"
    /\ raised = "FileNotFoundError"
    /\ exit_code = 1

\* C10: a failing logout request leaves the result decided in the try
\* block as it is and raises nothing: deploy_packages returns that result.
C10_LogoutFailureHarmless ==
    [][FailedLogoutStep => /\ result' = result
                           /\ raised' = "none"
                           /\ pc' = "returned"]_vars

C10_Witness ==
    /\ pc = "returned"
    /\ result = "true"
    /\ \E i \in CallsOf("logout") : ~calls[i].ok

\* C11: whenever logout has been invoked, the session is closed, whether
\* the logout request succeeded or failed.
C11_LogoutClosesSession == CallsOf("logout") # {} => session_closed

C11_Witness ==
    /\ session_closed
    /\ \E i \in CallsOf("logout") : ~calls[i].ok

\* C12: check_publish_status never raises.  On a transport, HTTP or parse
\* fault its record is success=false, is_failed=true, is_complete=false;
\* on a good response it is success=true with the completion flag, the
\* failure flag and the log list of the body, false, false and empty when
\* the body lacks them.
C12_StatusRecord ==
    CallsOf("poll") # {} =>
        /\ pc \notin {"raised", "crashed"} /\ raised = "none"
        /\ IF response.outcome = "ok"
           THEN LET body == response.body
                IN  /\ status.success
                    /\ status.is_complete =
                           IF "isCompleted" \in DOMAIN body THEN body.isCompleted ELSE FALSE
                    /\ status.is_failed =
                           IF "isFailed" \in DOMAIN body THEN body.isFailed ELSE FALSE
                    /\ status.logs = IF "log" \in DOMAIN body THEN body.log ELSE <<>>
           ELSE /\ ~status.success
                /\ status.is_failed
                /\ ~status.is_complete

C12_Witness ==
    /\ response.outcome = "ok"
    /\ DOMAIN response.body = {}
    /\ status = [success |-> TRUE, is_complete |-> FALSE, is_failed |-> FALSE, logs |-> <<>>]
    /\ pc = "poll"

\* C13: in every run that reaches the upload stage, the project names of
\* the plan's units are pairwise distinct.
C13_DistinctProjectNames ==
    CallsOf("upload") # {} =>
        \A i, j \in DOMAIN files_config :
            files_config[i].project_data.projectName
                = files_config[j].project_data.projectName => i = j

\* the (TYPE, message) pairs the polls have returned so far
AllReturnedLogs ==
    returned_logs \cup { LogPair(status.logs[i]) : i \in DOMAIN status.logs }

\* the pairs displayed so far
DisplayedPairs == { displayed[i] : i \in DOMAIN displayed }

\* C14: a log entry's identity is the pair (uppercased logType, message):
\* any two returned entries whose pairs differ are both displayed.
C14_PairIsIdentity ==
    \A p, q \in AllReturnedLogs :
        p # q => (p \in DisplayedPairs /\ q \in DisplayedPairs)

\* C15: publish-begin is issued at most once, only after every unit of the
\* plan has been uploaded successfully, with the plan's project names in
\* plan order as its argument; no poll is issued unless publish-begin
\* returned success.
C15_PublishOnceAfterUploads ==
    /\ Cardinality(CallsOf("publish")) <= 1
    /\ \A i \in CallsOf("publish") :
           /\ { j \in CallsOf("upload") : j < i } = CallsOf("upload")
           /\ Cardinality(CallsOf("upload")) = Len(files_config)
           /\ \A k \in DOMAIN files_config :
                  \E j \in CallsOf("upload") :
                      /\ calls[j].ok
                      /\ Cardinality({ h \in CallsOf("upload") : h <= j }) = k
                      /\ calls[j].arg[2] = files_config[k].project_data.projectName
           /\ calls[i].arg =
                  [k \in DOMAIN files_config |-> files_config[k].project_data.projectName]
    /\ \A p \in CallsOf("poll") :
           \E i \in CallsOf("publish") : i < p /\ calls[i].ok

C15_Witness ==
    /\ CallsOf("poll") # {}
    /\ \E i \in CallsOf("publish") :
           /\ Len(calls[i].arg) = 2
           /\ calls[i].arg[1] # calls[i].arg[2]

\* C16: when a poll reports failure the run fails at once: the poll
\* displays nothing, no further poll (or other stage call) is issued, and
\* the result is false.
C16_FailedPollStopsRun ==
    /\ [](\A i \in CallsOf("poll") :
              ~calls[i].ok => /\ \A j \in StageCalls : j <= i
                              /\ result = "false"
                              /\ pc \in {"finally", "returned", "exited"})
    /\ [][(PollStep /\ ~status'.success)
          => (displayed' = displayed /\ seen_logs' = seen_logs)]_vars

C16_Witness ==
    /\ pc = "exited"
    /\ Cardinality(CallsOf("poll")) = 2
    /\ ~status.success
    /\ Len(displayed) = 1

\* the identifier of each entry of the logs is among the displayed lines
AllDisplayed(logs, shown) ==
    \A i \in DOMAIN logs :
        \E k \in DOMAIN shown :
            LogIdentifier(shown[k][1], shown[k][2])
                = LogIdentifier(Upper(logs[i].logType), logs[i].message)

\* C17: a successful poll ends the loop exactly when its completion flag
\* is true.  With completion false the run polls again whatever the
\* failure flag; with completion true the failure flag alone decides
\* between false and true; in both cases the response's new log entries
\* have been displayed by then.
C17_CompletionDecides ==
    [][(PollStep /\ status'.success) =>
          /\ ~status'.is_complete => (pc' = "poll" /\ result' = "none")
          /\ status'.is_complete =>
                 /\ pc' = "finally"
                 /\ result' = IF status'.is_failed THEN "false" ELSE "true"
          /\ AllDisplayed(status'.logs, displayed')
          /\ SubSeq(displayed', 1, Len(displayed)) = displayed]_vars

C17_Witness ==
    /\ pc = "poll"
    /\ status.success /\ ~status.is_complete /\ status.is_failed
    /\ Len(displayed) = 1

\* the configured entry has a file in the package directory
HasMatch(package_config) == Glob(directory, package_config.file_pattern) # {}

\* the configured entries that have a file, in configuration order
MatchedEntries == SelectSeq(load_package_config(config_file), HasMatch)

\* C18: the plan is the subsequence of the configured entries that have a
\* matching file, in configuration order, one unit per entry, each unit
\* on a file its entry's pattern matches; entries without a file are
\* skipped and do not fail the run.
C18_PlanIsMatchedSubsequence ==
    /\ pc = "login" =>
           /\ Len(files_config) = Len(MatchedEntries)
           /\ \A k \in DOMAIN files_config :
                  /\ files_config[k].project_data.projectLevel
                         = MatchedEntries[k].project_level
                  /\ files_config[k].file_path
                         \in Glob(directory, MatchedEntries[k].file_pattern)
                  /\ files_config[k].project_data.projectName
                         = Stem(files_config[k].file_path)
    /\ (pc # "main" /\ dir_exists /\ MatchedEntries # <<>>) => pc = "login"

C18_Witness ==
    /\ pc = "login"
    /\ ~config_file.exists
    /\ [k \in DOMAIN files_config |-> files_config[k].project_data.projectLevel]
           = <<1, 3, 5>>

\* the last poll ended the monitoring loop: it faulted or reported completion
LoopEnded == CallsOf("poll") # {} /\ (~status.success \/ status.is_complete)

\* C19: the monitoring loop has no bound of its own.  A run that has
\* polled is still polling exactly while the last response was good and
\* not complete, however many polls it has issued; once a response is
\* complete or a poll faults, the run goes on to its end.
C19_PollsUntilCompleteOrFault ==
    /\ [](CallsOf("poll") # {} =>
              (pc = "poll" <=> (status.success /\ ~status.is_complete)))
    /\ (LoopEnded ~> pc = "exited")

C19_Witness ==
    /\ pc = "poll"
    /\ Cardinality(CallsOf("poll")) = MaxPolls
    /\ status.success /\ ~status.is_complete

\* the step is a logout
LogoutStep == Len(calls') = Len(calls) + 1 /\ calls'[Len(calls')].op = "logout"

\* C20: logout is the last call of a run: no login, upload, publish-begin
\* or poll follows it, and it is invoked only once the run's result, true
\* or false, has been decided.
C20_LogoutLast ==
    /\ [](\A i \in CallsOf("logout") : i = Len(calls))
    /\ [][LogoutStep => (result \in {"true", "false"} /\ result' = result)]_vars

C20_Witness ==
    /\ pc = "exited"
    /\ result = "true"
    /\ calls[Len(calls)].op = "logout"

====
